---- MODULE Spec2Model ----
(***************************************************************************)
(* Model of src/search_medication.py: the DailyMed crawl controller        *)
(* (collect_all_result_urls, _extract_result_urls, _has_next_page), the    *)
(* page classifier (process_medication_page and its extraction helpers)    *)
(* and search_medication, which drives the two.                            *)
(*                                                                         *)
(* Python str values are TLA+ strings; `in`, startswith, lower(), split    *)
(* and the f-strings are computed on the characters.  A fetched search     *)
(* page is the sequence of its <a href> elements, a fetched label page is  *)
(* a record of the document features the extraction helpers look at.       *)
(***************************************************************************)
EXTENDS Integers, Sequences, FiniteSets, TLC

(***************************************************************************)
(* Bounds                                                                  *)
(***************************************************************************)
\* number of <a href> elements on one search-result page
MaxLinks == 2

(***************************************************************************)
(* Python values                                                           *)
(***************************************************************************)
\* Python None where a str is expected
None == "<None>"
\* {} : a dict with no key
EmptyDict == [k \in {} |-> None]

(***************************************************************************)
(* str operations                                                          *)
(***************************************************************************)
\* t in s
Contains(s, t) ==
    \E k \in 1..(Len(s) - Len(t) + 1) : SubSeq(s, k, k + Len(t) - 1) = t

\* s.find(t, k - 1) + 1 : position of the first occurrence at or after k,
\* 0 when there is none
RECURSIVE FindFrom(_, _, _)
FindFrom(s, t, k) ==
    IF k + Len(t) - 1 > Len(s) THEN 0
    ELSE IF SubSeq(s, k, k + Len(t) - 1) = t THEN k
    ELSE FindFrom(s, t, k + 1)

\* s.find(t) + 1
IndexOf(s, t) == FindFrom(s, t, 1)

\* s.startswith(t)
StartsWith(s, t) == Len(s) >= Len(t) /\ SubSeq(s, 1, Len(t)) = t

\* s[k:] with k counted from 1
From(s, k) == SubSeq(s, k, Len(s))

UpperAlpha == "ABCDEFGHIJKLMNOPQRSTUVWXYZ"
LowerAlpha == "abcdefghijklmnopqrstuvwxyz"
Digits == "0123456789"

\* the lower-case letter of each upper-case letter
UpperToLower ==
    [c \in {SubSeq(UpperAlpha, k, k) : k \in 1..Len(UpperAlpha)} |->
        SubSeq(LowerAlpha, IndexOf(UpperAlpha, c), IndexOf(UpperAlpha, c))]

LowerChar(c) == IF c \in DOMAIN UpperToLower THEN UpperToLower[c] ELSE c

\* s.lower()
RECURSIVE Lower(_)
Lower(s) ==
    IF Len(s) = 0 THEN s
    ELSE LowerChar(SubSeq(s, 1, 1)) \o Lower(From(s, 2))

\* s.isdigit()
IsDigit(s) ==
    /\ Len(s) > 0
    /\ \A k \in 1..Len(s) : Contains(Digits, SubSeq(s, k, k))

\* the leading run of digits of s (what (\d+) matches at the start of s)
RECURSIVE LeadingDigits(_)
LeadingDigits(s) ==
    IF Len(s) > 0 /\ Contains(Digits, SubSeq(s, 1, 1))
    THEN SubSeq(s, 1, 1) \o LeadingDigits(From(s, 2))
    ELSE ""

\* int(s) for a string of digits
RECURSIVE ToInt(_)
ToInt(s) ==
    IF Len(s) = 0 THEN 0
    ELSE 10 * ToInt(SubSeq(s, 1, Len(s) - 1))
         + (IndexOf(Digits, SubSeq(s, Len(s), Len(s))) - 1)

\* str(n) for n >= 0
RECURSIVE ToStr(_)
ToStr(n) ==
    IF n < 10 THEN SubSeq(Digits, n + 1, n + 1)
    ELSE ToStr(n \div 10) \o SubSeq(Digits, (n % 10) + 1, (n % 10) + 1)

\* the upper-case letter of each lower-case letter
LowerToUpper ==
    [c \in {SubSeq(LowerAlpha, k, k) : k \in 1..Len(LowerAlpha)} |->
        SubSeq(UpperAlpha, IndexOf(LowerAlpha, c), IndexOf(LowerAlpha, c))]

UpperChar(c) == IF c \in DOMAIN LowerToUpper THEN LowerToUpper[c] ELSE c

IsAlpha(c) == c \in DOMAIN LowerToUpper \/ c \in DOMAIN UpperToLower

\* s.title() from position k on: a letter is written in upper case when the
\* character before it is not a letter, in lower case otherwise
RECURSIVE TitleFrom(_, _)
TitleFrom(s, k) ==
    IF k > Len(s) THEN ""
    ELSE (IF k > 1 /\ IsAlpha(SubSeq(s, k - 1, k - 1))
          THEN LowerChar(SubSeq(s, k, k))
          ELSE UpperChar(SubSeq(s, k, k)))
         \o TitleFrom(s, k + 1)

\* s.title()
Title(s) == TitleFrom(s, 1)

\* s * n
RECURSIVE Repeat(_, _)
Repeat(s, n) == IF n <= 0 THEN "" ELSE s \o Repeat(s, n - 1)

\* s.split(sep)
RECURSIVE Split(_, _)
Split(s, sep) ==
    IF Contains(s, sep)
    THEN <<SubSeq(s, 1, IndexOf(s, sep) - 1)>>
         \o Split(From(s, IndexOf(s, sep) + Len(sep)), sep)
    ELSE <<s>>

\* sep.join(parts)
RECURSIVE Join(_, _)
Join(parts, sep) ==
    IF Len(parts) = 0 THEN ""
    ELSE IF Len(parts) = 1 THEN parts[1]
    ELSE parts[1] \o sep \o Join(Tail(parts), sep)

(***************************************************************************)
(* Program constants                                                       *)
(***************************************************************************)
BASE_URL == "https://dailymed.nlm.nih.gov/dailymed/search.cfm"
MAX_RETRIES == 3
QUALIFYING_FORMS ==
    <<"capsule", "liquid", "tablet", "oral", "suspension", "solution", "syrup">>
DISQUALIFYING_FORMS ==
    <<"cream", "ointment", "injection", "topical", "gel", "lotion", "spray", "patch">>
ALLERGENS ==
    <<"eggs", "corn", "cornstarch", "corn starch", "dextrose", "lactose",
      "whey", "wheat", "xylitol", "wheat", "gluten", "barley", "oats", "corn",
      "cornstarch", "dextrose", "lactose", "casein", "whey", "nuts", "eggs",
      "xylitol", "sorbitol">>

(***************************************************************************)
(* urllib.parse, on the URLs a result page carries: an absolute URL        *)
(* scheme://netloc/path?query, a path starting with "/", or a path         *)
(* relative to the directory of BASE_URL; no fragment, no ";params", no    *)
(* "." or ".." segment, no percent-escape.                                 *)
(***************************************************************************)
\* position of the first "/" or "?" of s, Len(s) + 1 when there is none
EndOfNetloc(s) ==
    IF Contains(s, "/") /\ (~Contains(s, "?") \/ IndexOf(s, "/") < IndexOf(s, "?"))
    THEN IndexOf(s, "/")
    ELSE IF Contains(s, "?") THEN IndexOf(s, "?")
    ELSE Len(s) + 1

\* urlparse(url) for an absolute url: the scheme is lower-cased, the netloc
\* is kept as written
urlparse(url) ==
    LET p    == IndexOf(url, "://")
        rest == From(url, p + 3)
        e    == EndOfNetloc(rest)
        tail == From(rest, e)
        q    == IndexOf(tail, "?")
    IN  [scheme |-> Lower(SubSeq(url, 1, p - 1)),
         netloc |-> SubSeq(rest, 1, e - 1),
         path   |-> IF q = 0 THEN tail ELSE SubSeq(tail, 1, q - 1),
         query  |-> IF q = 0 THEN "" ELSE From(tail, q + 1)]

\* the url written with a scheme of its own
HasScheme(url) ==
    /\ Contains(url, "://")
    /\ ~Contains(SubSeq(url, 1, IndexOf(url, "://") - 1), "/")
    /\ ~Contains(SubSeq(url, 1, IndexOf(url, "://") - 1), "?")

\* urljoin(base, url)
\* the directory of a path: the path up to its last "/"
Directory(path) ==
    SubSeq(path, 1,
           CHOOSE k \in 1..Len(path) :
              /\ SubSeq(path, k, k) = "/"
              /\ ~Contains(From(path, k + 1), "/"))

\* urljoin of a url to a base already parsed into b
JoinParsed(b, url) ==
    IF HasScheme(url)
    THEN IF urlparse(url).scheme # b.scheme THEN url
         ELSE b.scheme \o From(url, IndexOf(url, "://"))
    ELSE IF StartsWith(url, "/")
    THEN b.scheme \o "://" \o b.netloc \o url
    ELSE b.scheme \o "://" \o b.netloc \o Directory(b.path) \o url

urljoin(base, url) == JoinParsed(urlparse(base), url)

\* parse_qs(query)[name], the list of the non-blank values of name; the
\* empty list stands for a key that parse_qs does not return
RECURSIVE QsValues(_, _)
QsValues(pairs, name) ==
    IF Len(pairs) = 0 THEN <<>>
    ELSE LET nv == pairs[1]
             eq == IndexOf(nv, "=")
         IN  IF eq > 0 /\ SubSeq(nv, 1, eq - 1) = name /\ Len(From(nv, eq + 1)) > 0
             THEN <<From(nv, eq + 1)>> \o QsValues(Tail(pairs), name)
             ELSE QsValues(Tail(pairs), name)

parse_qs(query, name) == QsValues(Split(query, "&"), name)

(***************************************************************************)
(* _extract_result_urls: what it computes from one href                    *)
(***************************************************************************)
\* lines 123-129: make the href absolute
FullUrl(href) ==
    IF StartsWith(href, "/") \/ ~StartsWith(href, "http")
    THEN urljoin(BASE_URL, href)
    ELSE href

\* line 117: the link points to a label page
IsLabelLink(href) ==
    Len(href) > 0 /\ (Contains(href, "lookup.cfm") \/ Contains(href, "setid="))

\* line 134
HasSetid(full_url) == Len(parse_qs(urlparse(full_url).query, "setid")) > 0

\* line 136, from the parsed url
NormalizedFrom(parsed) ==
    parsed.scheme \o "://" \o parsed.netloc \o parsed.path
    \o "?setid=" \o parse_qs(parsed.query, "setid")[1]

\* lines 132-136: the identifier of a label link
Normalized(full_url) == NormalizedFrom(urlparse(full_url))

(***************************************************************************)
(* _has_next_page: what it computes from one element                       *)
(***************************************************************************)
\* 'disabled' not in str(classes).lower()
NotDisabled(classes) == ~Contains(Lower(classes), "disabled")

\* re.compile(r'next|Next|>', re.I) found in the link's string
NextText(text) == Contains(Lower(text), "next") \/ Contains(text, ">")

\* re.search(r'page=(\d+)', href) matches
HasPageNumber(href) ==
    /\ Contains(href, "page=")
    /\ \E k \in 1..(Len(href) - 5) :
          /\ SubSeq(href, k, k + 4) = "page="
          /\ Len(LeadingDigits(From(href, k + 5))) > 0

\* int(page_match.group(1)) : the number of the first page=<digits>
PageNumber(href) ==
    LET first == CHOOSE k \in 1..(Len(href) - 5) :
                    /\ SubSeq(href, k, k + 4) = "page="
                    /\ Len(LeadingDigits(From(href, k + 5))) > 0
                    /\ \A j \in 1..(k - 1) :
                          ~(/\ SubSeq(href, j, j + 4) = "page="
                            /\ Len(LeadingDigits(From(href, j + 5))) > 0)
    IN  ToInt(LeadingDigits(From(href, first + 5)))

\* lines 206-207: the text of a page link reads next, > or a number
PagerText(text) ==
    \/ Contains(Lower(text), "next")
    \/ Contains(text, ">")
    \/ IsDigit(Lower(text))

(***************************************************************************)
(* The <a href> elements the site serves: links of a result page to the    *)
(* labels A and B, written in several ways, a link that is not a label     *)
(* link, and pagination links.                                             *)
(***************************************************************************)
LabelLink(href) ==
    [href |-> href, text |-> "Drug label", parent_class |-> "", class |-> ""]

ResultLinks ==
    { LabelLink("/dailymed/lookup.cfm?setid=A"),
      LabelLink("https://dailymed.nlm.nih.gov/dailymed/lookup.cfm?setid=A&audience=consumer"),
      LabelLink("https://DailyMed.nlm.nih.gov/dailymed/lookup.cfm?setid=A"),
      LabelLink("lookup.cfm?setid=B"),
      LabelLink("HTTPS://dailymed.nlm.nih.gov/dailymed/lookup.cfm?setid=B"),
      LabelLink("/dailymed/about.cfm") }

PagerLinks ==
    { [href |-> "search.cfm?page=2", text |-> "Next", parent_class |-> "", class |-> ""],
      [href |-> "search.cfm?page=2", text |-> "Next", parent_class |-> "disabled",
       class |-> ""],
      [href |-> "search.cfm", text |-> "Next >", parent_class |-> "pager Disabled",
       class |-> ""] }

Anchors == ResultLinks \cup PagerLinks

\* more pagination links, for _has_next_page called on its own
MorePagerLinks ==
    { [href |-> "search.cfm?page=3", text |-> "3", parent_class |-> "", class |-> ""],
      [href |-> "search.cfm?page=3", text |-> "Last", parent_class |-> "", class |-> ""],
      [href |-> "search.cfm?page=1", text |-> "1", parent_class |-> "",
       class |-> "current Disabled"],
      [href |-> "search.cfm?page=1&sort=asc", text |-> "Previous", parent_class |-> "",
       class |-> ""] }

AllAnchors == Anchors \cup MorePagerLinks

\* what _extract_result_urls and _has_next_page compute for one element;
\* normalized is None when line 134 finds no setid
UrlFacts(a, full_url) ==
    [label           |-> IsLabelLink(a.href),
     setid_text      |-> Len(a.href) > 0 /\ Contains(a.href, "setid="),
     full            |-> full_url,
     has_setid       |-> HasSetid(full_url),
     normalized      |-> IF HasSetid(full_url) THEN Normalized(full_url) ELSE None]

PagerFacts(a) ==
    [next_text       |-> NextText(a.text),
     parent_enabled  |-> NotDisabled(a.parent_class),
     enabled         |-> NotDisabled(a.class),
     page_param      |-> Contains(a.href, "page="),
     pager_text      |-> PagerText(a.text),
     has_page_number |-> HasPageNumber(a.href),
     page_number     |-> IF HasPageNumber(a.href) THEN PageNumber(a.href) ELSE 0]

LinkFacts(a) == [url |-> UrlFacts(a, FullUrl(a.href)), pager |-> PagerFacts(a)]

\* LinkFacts, computed once for each element
FactsOf == [a \in AllAnchors |-> LinkFacts(a)]

(***************************************************************************)
(* _extract_result_urls and _has_next_page, over the elements of a page    *)
(***************************************************************************)
\* lines 115-142: the first loop, over the links from position k on; acc is
\* [urls, seen]
\* lines 116-142: one pass of the first loop, f the facts of the link
NormalizeStep(f, acc) ==
    IF f.label /\ f.has_setid /\ f.normalized \notin acc.seen
    THEN [urls |-> Append(acc.urls, f.normalized),
          seen |-> acc.seen \cup {f.normalized}]
    ELSE acc

RECURSIVE NormalizeLoop(_, _, _)
NormalizeLoop(links, k, acc) ==
    IF k > Len(links) THEN acc
    ELSE NormalizeLoop(links, k + 1, NormalizeStep(FactsOf[links[k]].url, acc))

\* lines 147-162: the second loop, over the links from position k on
\* lines 148-162: one pass of the second loop
AlternativeStep(f, acc) ==
    IF f.setid_text /\ f.full \notin acc.seen
    THEN [urls |-> Append(acc.urls, f.full), seen |-> acc.seen \cup {f.full}]
    ELSE acc

RECURSIVE AlternativeLoop(_, _, _)
AlternativeLoop(links, k, acc) ==
    IF k > Len(links) THEN acc
    ELSE AlternativeLoop(links, k + 1, AlternativeStep(FactsOf[links[k]].url, acc))

\* line 145: the second loop runs when the first one returned nothing
TriesAlternative(urls) == Len(urls) = 0

\* lines 98-164: the urls the function returns and self.seen_urls afterwards
AfterFirstLoop(html, first) ==
    IF TriesAlternative(first.urls) THEN AlternativeLoop(html, 1, first) ELSE first

extract_result_urls(html, seen) ==
    AfterFirstLoop(html, NormalizeLoop(html, 1, [urls |-> <<>>, seen |-> seen]))

\* lines 178-189
IsNextLink(f) == f.next_text /\ f.parent_enabled

TierNextLink(html) == \E k \in 1..Len(html) : IsNextLink(FactsOf[html[k]].pager)

\* lines 192-202
IsHigherPage(f, current_page) == f.has_page_number /\ f.page_number > current_page

TierHigherPage(html, current_page) ==
    \E k \in 1..Len(html) : IsHigherPage(FactsOf[html[k]].pager, current_page)

\* lines 205-211
IsPageLink(f) == f.page_param /\ f.pager_text /\ f.enabled

TierPageLinkText(html) == \E k \in 1..Len(html) : IsPageLink(FactsOf[html[k]].pager)

\* variant: a disabled next link ends the search for a next page
has_next_method_DisabledNextStops(html, current_page) ==
    IF TierNextLink(html) THEN "next_link_text"
    ELSE IF \E k \in 1..Len(html) : FactsOf[html[k]].pager.next_text THEN "none"
    ELSE IF TierHigherPage(html, current_page) THEN "page_number_higher"
    ELSE IF TierPageLinkText(html) THEN "page_link_text"
    ELSE "none"

\* the method_used of the verbose info
has_next_method(html, current_page) ==
    IF TierNextLink(html) THEN "next_link_text"
    ELSE IF TierHigherPage(html, current_page) THEN "page_number_higher"
    ELSE IF TierPageLinkText(html) THEN "page_link_text"
    ELSE "none"

\* lines 166-214
has_next_page(html, current_page) == has_next_method(html, current_page) # "none"

(***************************************************************************)
(* A label page, as the document features the extraction helpers read:     *)
(*   ndc_tag      an element of class inactive-ndc-tag exists              *)
(*   ndc_texts    the text nodes matching inactive.*NDC, each with the     *)
(*                class and style of its parent and of its grandparent     *)
(*   h1, drug_title, label_title, title                                    *)
(*                the text of the first element the selector finds, None   *)
(*                when there is no such element                            *)
(*   scan         the list the structural ingredient scan produces         *)
(*   ai_form, ai_ingredients                                               *)
(*                what the chat-completion call does when asked about this *)
(*                page: [status |-> "error"] (the call or the reading of   *)
(*                its reply raises), "no_json" (no {...} / [...] in the    *)
(*                reply), "bad_json" (json.loads raises), or "ok" with the *)
(*                parsed value                                             *)
(***************************************************************************)
\* dict.get(key, default)
Get(d, key, default) == IF key \in DOMAIN d THEN d[key] ELSE default

(***************************************************************************)
(* _check_inactive_ndc_warning                                             *)
(***************************************************************************)
\* lines 294-299
ParentIsRed(t) ==
    \/ Contains(Lower(t.classes), "red")
    \/ Contains(Lower(t.classes), "warning")
    \/ Contains(Lower(t.classes), "error")
    \/ Contains(Lower(t.style), "red")
    \/ Contains(Lower(t.style), "color:#")
    \/ Contains(Lower(t.style), "color:red")

\* lines 318-320
GrandparentIsRed(t) ==
    \/ Contains(Lower(t.gp_classes), "red")
    \/ Contains(Lower(t.gp_classes), "warning")
    \/ Contains(Lower(t.gp_style), "red")

\* the detection_method of the verbose info
ndc_detection_method(soup) ==
    IF soup.ndc_tag THEN "inactive_ndc_tag_class"
    ELSE IF \E k \in 1..Len(soup.ndc_texts) :
               /\ ParentIsRed(soup.ndc_texts[k])
               /\ \A j \in 1..(k - 1) : ~ParentIsRed(soup.ndc_texts[j])
                                        /\ ~GrandparentIsRed(soup.ndc_texts[j])
    THEN "red_styled_text"
    ELSE IF \E k \in 1..Len(soup.ndc_texts) : GrandparentIsRed(soup.ndc_texts[k])
    THEN "red_styled_parent_text"
    ELSE "none"

check_inactive_ndc_warning(soup) ==
    [found |-> ndc_detection_method(soup) # "none",
     info  |-> [detection_method |-> ndc_detection_method(soup),
                inactive_ndc_tag_found |-> soup.ndc_tag]]

(***************************************************************************)
(* _extract_medication_title                                               *)
(***************************************************************************)
title_selectors == <<"h1", "drug_title", "label_title", "title">>

\* line 361: the text is a reasonable title
ReasonableTitle(text) == Len(text) > 5

\* lines 351-369: the loop over the selectors from position k on; tried is
\* selectors_tried so far
RECURSIVE SelectorLoop(_, _, _)
SelectorLoop(soup, k, tried) ==
    IF k > Len(title_selectors)
    THEN [title |-> None, found_in |-> None, selectors_tried |-> tried]
    ELSE LET sel  == title_selectors[k]
             text == soup[sel]
         IN  IF text # None
             THEN IF ReasonableTitle(text)
                  THEN [title |-> text, found_in |-> sel,
                        selectors_tried |->
                           Append(tried, [selector |-> sel, found |-> TRUE])]
                  ELSE SelectorLoop(soup, k + 1,
                           Append(tried, [selector |-> sel, found |-> TRUE]))
             ELSE SelectorLoop(soup, k + 1,
                      Append(tried, [selector |-> sel, found |-> FALSE]))

\* lines 335-391
extract_medication_title(soup) ==
    LET loop == SelectorLoop(soup, 1, <<>>)
    IN  IF loop.title # None
        THEN [title |-> loop.title,
              info  |-> [selectors_tried |-> loop.selectors_tried,
                         found_in |-> loop.found_in, title_text |-> loop.title]]
        ELSE IF soup.title # None
        THEN LET tried == Append(loop.selectors_tried,
                             [selector |-> "title (fallback)", found |-> TRUE])
             IN  IF Len(soup.title) > 0
                 THEN [title |-> soup.title,
                       info  |-> [selectors_tried |-> tried,
                                  found_in |-> "title (fallback)",
                                  title_text |-> soup.title]]
                 ELSE [title |-> None,
                       info  |-> [selectors_tried |-> tried,
                                  found_in |-> None, title_text |-> None]]
        ELSE [title |-> None,
              info  |-> [selectors_tried |->
                            Append(loop.selectors_tried,
                               [selector |-> "title (fallback)", found |-> FALSE]),
                         found_in |-> None, title_text |-> None]]

(***************************************************************************)
(* _analyze_form_type_regex, _analyze_form_type_ai                         *)
(***************************************************************************)
\* `for form in forms: if form in text`: the first form, from position k
\* on, that is a substring of the text, None if there is none
RECURSIVE FirstFormFrom(_, _, _)
FirstFormFrom(forms, text, k) ==
    IF k > Len(forms) THEN None
    ELSE IF Contains(text, forms[k]) THEN forms[k]
    ELSE FirstFormFrom(forms, text, k + 1)

FirstFormIn(forms, text) == FirstFormFrom(forms, text, 1)

\* variant: the qualifying forms are looked for first
analyze_form_type_regex_QualifyingFirst(title) ==
    LET title_lower == Lower(title)
        bad  == FirstFormIn(DISQUALIFYING_FORMS, title_lower)
        good == FirstFormIn(QUALIFYING_FORMS, title_lower)
    IN  IF good # None
        THEN [form_type |-> good, confidence |-> "high", reasoning |-> good]
        ELSE IF bad # None
        THEN [form_type |-> "disqualify", confidence |-> "high", reasoning |-> bad]
        ELSE [form_type |-> "unknown", confidence |-> "low", reasoning |-> ""]

\* lines 433-459
analyze_form_type_regex(title) ==
    LET title_lower == Lower(title)
        bad  == FirstFormIn(DISQUALIFYING_FORMS, title_lower)
        good == FirstFormIn(QUALIFYING_FORMS, title_lower)
    IN  IF bad # None
        THEN [form_type |-> "disqualify", confidence |-> "high", reasoning |-> bad]
        ELSE IF good # None
        THEN [form_type |-> good, confidence |-> "high", reasoning |-> good]
        ELSE [form_type |-> "unknown", confidence |-> "low", reasoning |-> ""]

\* lines 393-431: client is self.openai_client, reply what the call does
analyze_form_type_ai(client, reply, title) ==
    IF ~client THEN analyze_form_type_regex(title)
    ELSE IF reply.status = "ok" THEN reply.result
    ELSE analyze_form_type_regex(title)

(***************************************************************************)
(* _extract_inactive_ingredients_ai, _check_allergies                      *)
(***************************************************************************)
\* s.strip(), for blanks
RECURSIVE Strip(_)
Strip(s) ==
    IF Len(s) > 0 /\ SubSeq(s, 1, 1) = " " THEN Strip(From(s, 2))
    ELSE IF Len(s) > 0 /\ SubSeq(s, Len(s), Len(s)) = " "
    THEN Strip(SubSeq(s, 1, Len(s) - 1))
    ELSE s

\* line 557: [str(ing).strip().lower() for ing in ingredients if ing]
RECURSIVE CleanAiIngredients(_)
CleanAiIngredients(items) ==
    IF Len(items) = 0 THEN <<>>
    ELSE IF Len(items[1]) > 0
    THEN <<Lower(Strip(items[1]))>> \o CleanAiIngredients(Tail(items))
    ELSE CleanAiIngredients(Tail(items))

\* lines 570-729: the structural scan
extract_inactive_ingredients_bs4(soup) == soup.scan

\* variant: the structural scan is tried first, the service when it finds
\* nothing
extract_inactive_ingredients_ai_ScanFirst(client, soup) ==
    IF ~client \/ Len(extract_inactive_ingredients_bs4(soup)) > 0
       \/ soup.ai_ingredients.status # "ok"
    THEN [ingredients |-> extract_inactive_ingredients_bs4(soup),
          info |-> [method |-> "bs4_fallback", ai_used |-> FALSE,
                    fallback_reason |-> None]]
    ELSE [ingredients |-> CleanAiIngredients(soup.ai_ingredients.result),
          info |-> [method |-> "ai", ai_used |-> TRUE, fallback_reason |-> None]]

\* lines 461-568
extract_inactive_ingredients_ai(client, soup) ==
    IF ~client
    THEN [ingredients |-> extract_inactive_ingredients_bs4(soup),
          info |-> [method |-> "bs4_fallback", ai_used |-> FALSE,
                    fallback_reason |-> "no_openai_client"]]
    ELSE IF soup.ai_ingredients.status = "ok"
    THEN [ingredients |-> CleanAiIngredients(soup.ai_ingredients.result),
          info |-> [method |-> "ai", ai_used |-> TRUE, fallback_reason |-> None]]
    ELSE [ingredients |-> extract_inactive_ingredients_bs4(soup),
          info |-> [method |-> "ai", ai_used |-> FALSE,
                    fallback_reason |->
                       IF soup.ai_ingredients.status = "no_json" THEN None
                       ELSE "ai_extraction_error"]]

\* allergen.lower() for each entry of ALLERGENS
LowerAllergens == [k \in 1..Len(ALLERGENS) |-> Lower(ALLERGENS[k])]

\* lines 735-739: the loop over ALLERGENS from position k on
RECURSIVE AllergenLoop(_, _)
AllergenLoop(ingredients_text, k) ==
    IF k > Len(ALLERGENS) THEN [found |-> FALSE, allergen |-> None]
    ELSE IF Contains(ingredients_text, LowerAllergens[k])
    THEN [found |-> TRUE, allergen |-> ALLERGENS[k]]
    ELSE AllergenLoop(ingredients_text, k + 1)

\* variant: the text is compared as written
check_allergies_CaseSensitive(ingredients) ==
    AllergenLoop(Join(ingredients, " "), 1)

\* variant: the last entry of ALLERGENS that occurs is returned
check_allergies_LastInList(ingredients) ==
    LET hits == { k \in 1..Len(ALLERGENS) :
                     Contains(Lower(Join(ingredients, " ")), LowerAllergens[k]) }
    IN  IF hits = {} THEN [found |-> FALSE, allergen |-> None]
        ELSE [found |-> TRUE,
              allergen |-> ALLERGENS[CHOOSE k \in hits : \A j \in hits : j <= k]]

\* lines 731-739: [found, allergen]
check_allergies(ingredients) == AllergenLoop(Lower(Join(ingredients, " ")), 1)

(***************************************************************************)
(* process_medication_page, stage by stage                                 *)
(***************************************************************************)
\* lines 743-755
InitialResult(url) ==
    [qualified |-> FALSE, url |-> url, disqualification_reason |-> None,
     title |-> None, title_info |-> EmptyDict, form_analysis |-> EmptyDict,
     inactive_ndc_warning |-> EmptyDict, inactive_ingredients |-> <<>>,
     ingredient_info |-> EmptyDict, allergen_check |-> EmptyDict,
     page_fetch_status |-> "success"]

\* variant: the failed fetch is recorded without a reason
FetchFailedResult_NoReason(r) == [r EXCEPT !.page_fetch_status = "failed"]

\* lines 759-762
FetchFailedResult(r) ==
    [r EXCEPT !.page_fetch_status = "failed",
              !.disqualification_reason = "page_fetch_failed"]

\* lines 767-774
NdcStage(r, soup) ==
    LET w  == check_inactive_ndc_warning(soup)
        r1 == [r EXCEPT !.inactive_ndc_warning =
                           [detected |-> w.found, details |-> w.info]]
    IN  IF w.found
        THEN [r1 EXCEPT !.disqualification_reason = "inactive_ndc_warning"]
        ELSE r1

\* variant: a page without a title goes on to the form stage
TitleStage_NoReason(r, soup) ==
    [r EXCEPT !.title = extract_medication_title(soup).title,
              !.title_info = extract_medication_title(soup).info]

\* lines 777-782; `not title` holds for None and for the empty string
TitleStage(r, soup) ==
    LET t  == extract_medication_title(soup)
        r1 == [r EXCEPT !.title = t.title, !.title_info = t.info]
    IN  IF t.title = None \/ Len(t.title) = 0
        THEN [r1 EXCEPT !.disqualification_reason = "title_not_found"]
        ELSE r1

\* line 787
FormDisqualifies(form_analysis) ==
    Get(form_analysis, "form_type", None) \in {"disqualify", "unknown"}

\* lines 785-789
FormStage(r, client, soup) ==
    LET form_analysis == analyze_form_type_ai(client, soup.ai_form, r.title)
        r1 == [r EXCEPT !.form_analysis = form_analysis]
    IN  IF FormDisqualifies(form_analysis)
        THEN [r1 EXCEPT !.disqualification_reason =
                           "form_type_" \o Get(form_analysis, "form_type", None)]
        ELSE r1

\* variant: a page on which no inactive ingredient is found is disqualified
IngredientStage_EmptyDisqualifies(r, client, soup) ==
    LET form_type == Get(r.form_analysis, "form_type", "unknown")
        ing == extract_inactive_ingredients_ai(client, soup)
        a   == check_allergies(ing.ingredients)
        r1  == [r EXCEPT !.inactive_ingredients = ing.ingredients,
                         !.ingredient_info = ing.info,
                         !.allergen_check =
                            [has_allergen |-> a.found, allergen_found |-> a.allergen]]
    IN  IF a.found
        THEN [r1 EXCEPT !.disqualification_reason = "allergen_found_" \o a.allergen]
        ELSE IF Len(ing.ingredients) = 0
        THEN [r1 EXCEPT !.disqualification_reason = "no_ingredients_found"]
        ELSE [r1 EXCEPT !.qualified = TRUE] @@ ("form_type" :> form_type)

\* lines 791-811
IngredientStage(r, client, soup) ==
    LET form_type == Get(r.form_analysis, "form_type", "unknown")
        ing == extract_inactive_ingredients_ai(client, soup)
        a   == check_allergies(ing.ingredients)
        r1  == [r EXCEPT !.inactive_ingredients = ing.ingredients,
                         !.ingredient_info = ing.info,
                         !.allergen_check =
                            [has_allergen |-> a.found, allergen_found |-> a.allergen]]
    IN  IF a.found
        THEN [r1 EXCEPT !.disqualification_reason = "allergen_found_" \o a.allergen]
        ELSE [r1 EXCEPT !.qualified = TRUE] @@ ("form_type" :> form_type)

\* variant: the stages set the reason and go on
Returns_Never(r) == FALSE

\* a stage returned the result: the `return result` after a reason was set
Returns(r) == r.disqualification_reason # None

(***************************************************************************)
(* format_results                                                          *)
(***************************************************************************)
\* lines 959-964
ReportHeader(medication_name) ==
    << "Search Results for: " \o medication_name, Repeat("=", 60), "",
       "Qualified Medications (No Allergens, Capsule/Liquid Only):", "" >>

\* lines 973-974: result.get('form_type') is there and not empty
FormLine(r) ==
    IF Len(Get(r, "form_type", "")) > 0
    THEN << "   Form: " \o Title(r.form_type) >>
    ELSE <<>>

\* lines 971-975: the lines of the k-th result
ReportEntry(k, r) ==
    << ToStr(k) \o ". " \o Get(r, "title", "Unknown"),
       "   " \o Get(r, "url", "") >>
    \o FormLine(r) \o <<"">>

\* lines 970-975: the loop over the results from position k on
RECURSIVE ReportEntries(_, _)
ReportEntries(results, k) ==
    IF k > Len(results) THEN <<>>
    ELSE ReportEntry(k, results[k]) \o ReportEntries(results, k + 1)

\* lines 977-978
TotalLines(results) ==
    << "Total: " \o ToStr(Len(results)) \o " qualified result(s)", "" >>

\* variant: the empty list is reported like any other
report_body_NoEmptyCase(results) ==
    ReportEntries(results, 1) \o TotalLines(results)

\* lines 966-978
report_body(results) ==
    IF Len(results) = 0
    THEN << "No qualified medications found.", "" >>
    ELSE ReportEntries(results, 1) \o TotalLines(results)

\* lines 957-980
format_results(medication_name, results) ==
    Join(ReportHeader(medication_name) \o report_body(results), "\n")

(***************************************************************************)
(* _make_request: the server fails the first `failures` GETs of the url    *)
(* and answers the next one with body                                      *)
(***************************************************************************)
\* lines 73-86: the number of GETs issued
request_attempts(failures) ==
    IF failures < MAX_RETRIES THEN failures + 1 ELSE MAX_RETRIES

\* lines 73-86: the response, [ok |-> FALSE] for None
make_request(failures, body) ==
    IF failures < MAX_RETRIES
    THEN [ok |-> TRUE, text |-> body]
    ELSE [ok |-> FALSE]

\* how many GETs in a row the server may fail
Failures == 0..MAX_RETRIES

\* variant: a response is not returned before the last pass
RequestPass_KeepsAsking(attempt, failures, body) ==
    IF attempt < MAX_RETRIES - 1 THEN [returns |-> FALSE]
    ELSE IF attempt >= failures
    THEN [returns |-> TRUE, response |-> [ok |-> TRUE, text |-> body]]
    ELSE [returns |-> TRUE, response |-> [ok |-> FALSE]]

\* lines 73-85: the pass of the loop with the given attempt (counted from
\* 0), after its GET: the response is returned, or the loop sleeps and goes
\* on, or None is returned
RequestPass(attempt, failures, body) ==
    IF attempt >= failures
    THEN [returns |-> TRUE, response |-> [ok |-> TRUE, text |-> body]]
    ELSE IF attempt < MAX_RETRIES - 1 THEN [returns |-> FALSE]
    ELSE [returns |-> TRUE, response |-> [ok |-> FALSE]]

(***************************************************************************)
(* collect_all_result_urls                                                 *)
(***************************************************************************)
\* variant: the loop goes on whatever the page yielded
StopsPaginating_IgnoresYield(next, urls) == ~next

\* variant: the loop stops only when both conditions hold
StopsPaginating_NeedsBoth(next, urls) == ~next /\ Len(urls) = 0

\* line 244
StopsPaginating(next, urls) == ~next \/ Len(urls) = 0

\* variant: a failed request discards what was collected
UrlsAfterFailedRequest_Empty(urls) == <<>>

\* lines 228-229, 251: a failed request breaks out of the loop, and the
\* function returns what it has collected
UrlsAfterFailedRequest(urls) == urls

\* variant: a failed fetch of a label page ends the run
AfterFailedFetch_Abort == "done"

\* lines 759-762: a failed fetch of the label page returns the result to the
\* loop of search_medication
AfterFailedFetch == "s_verdict"

(***************************************************************************)
(* What the site and the chat-completion service may answer                *)
(***************************************************************************)
\* the result pages: up to MaxLinks <a href> elements
Htmls == UNION { [1..n -> Anchors] : n \in 0..MaxLinks }

PlainNdcText == [classes |-> "", style |-> "", gp_classes |-> "", gp_style |-> ""]
RedNdcText == [classes |-> "", style |-> "color:red", gp_classes |-> "", gp_style |-> ""]
BoxedNdcText ==
    [classes |-> "", style |-> "", gp_classes |-> "Warning-box", gp_style |-> ""]

NdcVariants ==
    { [ndc_tag |-> FALSE, ndc_texts |-> <<>>],
      [ndc_tag |-> TRUE, ndc_texts |-> <<>>],
      [ndc_tag |-> FALSE, ndc_texts |-> <<PlainNdcText>>],
      [ndc_tag |-> FALSE, ndc_texts |-> <<PlainNdcText, RedNdcText>>],
      [ndc_tag |-> FALSE, ndc_texts |-> <<BoxedNdcText>>] }

TitleVariants ==
    { [h1 |-> None, drug_title |-> None, label_title |-> None, title |-> None],
      [h1 |-> "", drug_title |-> None, label_title |-> None, title |-> ""],
      [h1 |-> "Advil", drug_title |-> None, label_title |-> None, title |-> "Advil"],
      [h1 |-> "Generic Drug 10mg Capsules", drug_title |-> None, label_title |-> None,
       title |-> "DailyMed"],
      [h1 |-> "Softgel Capsules", drug_title |-> None, label_title |-> None,
       title |-> None],
      [h1 |-> None, drug_title |-> "Hydrocortisone CREAM 1%", label_title |-> None,
       title |-> "DailyMed"],
      [h1 |-> None, drug_title |-> None, label_title |-> None,
       title |-> "Aspirin 81 mg"] }

AiFormReplies ==
    { [status |-> "error"], [status |-> "no_json"], [status |-> "bad_json"],
      [status |-> "ok", result |-> [form_type |-> "capsule", confidence |-> "high",
                                    reasoning |-> "capsule"]],
      [status |-> "ok", result |-> [form_type |-> "disqualify", confidence |-> "low",
                                    reasoning |-> "uncertain"]],
      [status |-> "ok", result |-> [confidence |-> "high",
                                    reasoning |-> "an oral form"]] }

Scans ==
    { <<>>, <<"lactose monohydrate">>,
      <<"microcrystalline cellulose", "magnesium stearate">> }

AiIngredientReplies ==
    { [status |-> "error"], [status |-> "no_json"], [status |-> "bad_json"],
      [status |-> "ok", result |-> <<>>],
      [status |-> "ok", result |-> <<"Magnesium Stearate ", "">>] }

Doc(ndc, t, form, scan, ingr) ==
    [ndc_tag |-> ndc.ndc_tag, ndc_texts |-> ndc.ndc_texts,
     h1 |-> t.h1, drug_title |-> t.drug_title, label_title |-> t.label_title,
     title |-> t.title, ai_form |-> form, scan |-> scan, ai_ingredients |-> ingr]

\* the label pages
AllDocs ==
    { Doc(ndc, t, form, scan, ingr) :
         ndc \in NdcVariants, t \in TitleVariants, form \in AiFormReplies,
         scan \in Scans, ingr \in AiIngredientReplies }

\* a few of them, one per outcome of the classifier
SampleDocs ==
    { d \in AllDocs :
         /\ d.ai_form.status = "error" /\ d.ai_ingredients.status = "error"
         /\ \/ d.ndc_tag /\ d.h1 = "Advil" /\ d.scan = <<>>
            \/ /\ ~d.ndc_tag /\ d.ndc_texts = <<>>
               /\ \/ d.h1 = "" /\ d.scan = <<>>
                  \/ d.h1 = "Softgel Capsules" /\ d.scan = <<>>
                  \/ d.h1 = "Generic Drug 10mg Capsules" /\ Len(d.scan) > 0 }

NoResponse == [ok |-> FALSE]
NoDoc == EmptyDict
NoResult == EmptyDict
NoCall == [fn |-> None]

(***************************************************************************)
(* State                                                                   *)
(***************************************************************************)
VARIABLES
    pc,                 \* the statement the run is at
    openai_client,      \* self.openai_client is set
    seen_urls,          \* self.seen_urls
    all_urls,           \* collect_all_result_urls: all_urls, then result_urls
    page,               \* collect_all_result_urls: page
    response,           \* collect_all_result_urls: response
    page_urls,          \* collect_all_result_urls: page_urls
    has_next,           \* collect_all_result_urls: has_next
    i,                  \* search_medication: i
    soup,               \* process_medication_page: soup
    result,             \* process_medication_page: result
    qualified_results,  \* search_medication: qualified_results
    classified,         \* the urls handed to process_medication_page so far
    crawl_end,          \* how the pagination loop ended
    args,               \* a helper called on its own: its name and arguments
    ret,                \* what that call, or main, returned
    gets                \* the urls that call has sent a GET for, in order

vars == <<pc, openai_client, seen_urls, all_urls, page, response, page_urls,
          has_next, i, soup, result, qualified_results, classified, crawl_end,
          args, ret, gets>>

Collecting == {"c_request", "c_extract", "c_has_next"}
Classifying == {"p_fetch", "p_ndc", "p_title", "p_form", "p_ingredients"}

\* lines 61-69, and the entry of search_medication
Init ==
    /\ pc = "c_request"
    /\ openai_client \in BOOLEAN
    /\ seen_urls = {}
    /\ all_urls = <<>>
    /\ page = 1
    /\ response = NoResponse
    /\ page_urls = <<>>
    /\ has_next = FALSE
    /\ i = 0
    /\ soup = NoDoc
    /\ result = NoResult
    /\ qualified_results = <<>>
    /\ classified = <<>>
    /\ crawl_end = "running"
    /\ args = NoCall
    /\ ret = None
    /\ gets = <<>>

call_vars == <<args, ret, gets>>
label_vars == <<i, soup, result, qualified_results, classified>>
crawl_vars == <<seen_urls, all_urls, page, response, page_urls, has_next,
                crawl_end>>

(***************************************************************************)
(* collect_all_result_urls                                                 *)
(***************************************************************************)
\* the function returns all_urls; its locals are gone
CollectReturn(how) ==
    /\ pc' = "s_results"
    /\ crawl_end' = how
    /\ page' = 0
    /\ response' = NoResponse
    /\ page_urls' = <<>>
    /\ has_next' = FALSE

\* lines 224-229
RequestSearchPage ==
    /\ pc = "c_request"
    /\ \E failures \in Failures, html \in Htmls :
          LET r == make_request(failures, html)
          IN  IF r.ok
              THEN /\ response' = r
                   /\ pc' = "c_extract"
                   /\ UNCHANGED <<page, page_urls, has_next, crawl_end>>
                   /\ all_urls' = all_urls
              ELSE /\ CollectReturn("request_failed")
                   /\ all_urls' = UrlsAfterFailedRequest(all_urls)
    /\ UNCHANGED <<openai_client, seen_urls>>
    /\ UNCHANGED label_vars
    /\ UNCHANGED call_vars

\* lines 231-232
ExtractResultUrls ==
    /\ pc = "c_extract"
    /\ LET e == extract_result_urls(response.text, seen_urls)
       IN  /\ page_urls' = e.urls
           /\ seen_urls' = e.seen
           /\ all_urls' = all_urls \o e.urls
    /\ pc' = "c_has_next"
    /\ UNCHANGED <<openai_client, page, response, has_next, crawl_end>>
    /\ UNCHANGED label_vars
    /\ UNCHANGED call_vars

\* lines 241-248
CheckNextPage ==
    /\ pc = "c_has_next"
    /\ LET next == has_next_page(response.text, page)
       IN  IF StopsPaginating(next, page_urls)
           THEN CollectReturn("last_page")
           ELSE \* response and page_urls are assigned anew before they
                \* are read again
                /\ has_next' = next
                /\ page' = page + 1
                /\ pc' = "c_request"
                /\ response' = NoResponse
                /\ page_urls' = <<>>
                /\ UNCHANGED crawl_end
    /\ UNCHANGED <<openai_client, seen_urls, all_urls>>
    /\ UNCHANGED label_vars
    /\ UNCHANGED call_vars

(***************************************************************************)
(* search_medication                                                       *)
(***************************************************************************)
\* lines 822-832
StartProcessing ==
    /\ pc = "s_results"
    /\ IF Len(all_urls) = 0
       THEN pc' = "done" /\ i' = i
       ELSE pc' = "p_fetch" /\ i' = 1
    /\ UNCHANGED <<openai_client, soup, result, qualified_results, classified>>
    /\ UNCHANGED crawl_vars
    /\ UNCHANGED call_vars

\* lines 835, 743-764
FetchLabelPage(docs) ==
    /\ pc = "p_fetch"
    /\ classified' = Append(classified, all_urls[i])
    /\ \E failures \in Failures, doc \in docs :
          LET r == make_request(failures, doc)
          IN  IF r.ok
              THEN /\ soup' = r.text
                   /\ result' = InitialResult(all_urls[i])
                   /\ pc' = "p_ndc"
              ELSE /\ soup' = NoDoc
                   /\ result' = FetchFailedResult(InitialResult(all_urls[i]))
                   /\ pc' = AfterFailedFetch
    /\ UNCHANGED <<openai_client, i, qualified_results>>
    /\ UNCHANGED crawl_vars
    /\ UNCHANGED call_vars

\* a stage of process_medication_page produced r
StageDone(r, next_pc) ==
    /\ result' = r
    /\ IF Returns(r) \/ next_pc = "s_verdict"
       THEN pc' = "s_verdict" /\ soup' = NoDoc
       ELSE pc' = next_pc /\ soup' = soup
    /\ UNCHANGED <<openai_client, i, qualified_results, classified>>
    /\ UNCHANGED crawl_vars
    /\ UNCHANGED call_vars

\* lines 766-774
CheckNdcWarning ==
    /\ pc = "p_ndc"
    /\ StageDone(NdcStage(result, soup), "p_title")

\* lines 776-782
ExtractTitle ==
    /\ pc = "p_title"
    /\ StageDone(TitleStage(result, soup), "p_form")

\* lines 784-791
AnalyzeForm ==
    /\ pc = "p_form"
    /\ StageDone(FormStage(result, openai_client, soup), "p_ingredients")

\* lines 793-811
CheckIngredients ==
    /\ pc = "p_ingredients"
    /\ StageDone(IngredientStage(result, openai_client, soup), "s_verdict")

\* variant: every verdict is kept
KeepsResult_Always(r) == r.qualified \/ ~r.qualified

\* lines 837-838
KeepsResult(r) == r.qualified

\* lines 837-868: the rest of the loop body, and the return
RecordVerdict ==
    /\ pc = "s_verdict"
    /\ qualified_results' =
          IF KeepsResult(result) THEN Append(qualified_results, result)
          ELSE qualified_results
    /\ IF i < Len(all_urls)
       THEN pc' = "p_fetch" /\ i' = i + 1
       ELSE pc' = "done" /\ i' = i
    /\ UNCHANGED <<openai_client, soup, result, classified>>
    /\ UNCHANGED crawl_vars
    /\ UNCHANGED call_vars

(***************************************************************************)
(* main                                                                    *)
(***************************************************************************)
\* variant: the two codes are swapped
exit_code_Swapped(results) == IF Len(results) > 0 THEN 1 ELSE 0

\* line 1048: return 0 if results else 1
exit_code(results) == IF Len(results) > 0 THEN 0 ELSE 1

\* lines 1036-1048: search_medication returned its list (the empty list when
\* there was no result url, line 824); the report is formatted, printed and
\* saved, and main returns
MainReturns ==
    /\ pc = "done"
    /\ pc' = "exited"
    /\ ret' = exit_code(qualified_results)
    /\ UNCHANGED <<args, gets, openai_client>>
    /\ UNCHANGED label_vars
    /\ UNCHANGED crawl_vars

(***************************************************************************)
(* Specifications                                                          *)
(***************************************************************************)
\* a whole run of search_medication
Next ==
    \/ RequestSearchPage
    \/ ExtractResultUrls
    \/ CheckNextPage
    \/ StartProcessing
    \/ FetchLabelPage(SampleDocs)
    \/ CheckNdcWarning
    \/ ExtractTitle
    \/ AnalyzeForm
    \/ CheckIngredients
    \/ RecordVerdict
    \/ MainReturns

Spec == Init /\ [][Next]_vars

\* collect_all_result_urls on its own, from its first statement to its
\* return. The loop is one thread of control: its next statement does run (a
\* GET answers or times out after 30 s, line 75, and each sleep is finite),
\* and every such step changes pc.
CollectNext == RequestSearchPage \/ ExtractResultUrls \/ CheckNextPage
SpecCollect == Init /\ [][CollectNext]_vars /\ WF_pc(CollectNext)

\* the pagination loop is over and returned one identifier
InitPage ==
    /\ pc = "s_results"
    /\ openai_client \in BOOLEAN
    /\ seen_urls = {Normalized(FullUrl("/dailymed/lookup.cfm?setid=A"))}
    /\ all_urls = <<Normalized(FullUrl("/dailymed/lookup.cfm?setid=A"))>>
    /\ page = 0
    /\ response = NoResponse
    /\ page_urls = <<>>
    /\ has_next = FALSE
    /\ i = 0
    /\ soup = NoDoc
    /\ result = NoResult
    /\ qualified_results = <<>>
    /\ classified = <<>>
    /\ crawl_end = "last_page"
    /\ args = NoCall
    /\ ret = None
    /\ gets = <<>>

\* the classification of one label page, over all the label pages
NextPage ==
    \/ StartProcessing
    \/ FetchLabelPage(AllDocs)
    \/ CheckNdcWarning
    \/ ExtractTitle
    \/ AnalyzeForm
    \/ CheckIngredients
    \/ RecordVerdict

SpecPage == InitPage /\ [][NextPage]_vars

(***************************************************************************)
(* The helpers, each called on its own                                     *)
(***************************************************************************)
\* number of entries of an ingredient list
MaxIngredients == 2

IngredientEntries ==
    { "Lactose Monohydrate", "whey protein", "CORN", "Starch", "whe", "at",
      "magnesium stearate" }

IngredientLists == UNION { [1..n -> IngredientEntries] : n \in 0..MaxIngredients }

CheckAllergiesCalls ==
    { [fn |-> "check_allergies", ingredients |-> l] : l \in IngredientLists }

\* number of results handed to format_results
MaxResults == 2

\* qualified verdicts, with the keys format_results reads
ReportResults ==
    { [title |-> "Advil Liqui-Gels", form_type |-> "capsule",
       url |-> "https://dailymed.nlm.nih.gov/dailymed/lookup.cfm?setid=A"],
      [title |-> "12 Hour Relief", form_type |-> "other_oral",
       url |-> "https://dailymed.nlm.nih.gov/dailymed/lookup.cfm?setid=B"],
      [title |-> "Advil PM Caplets", form_type |-> "",
       url |-> "https://dailymed.nlm.nih.gov/dailymed/lookup.cfm?setid=C"] }

ResultLists == UNION { [1..n -> ReportResults] : n \in 0..MaxResults }

FormatResultsCalls ==
    { [fn |-> "format_results", medication_name |-> "advil", results |-> l] :
         l \in ResultLists }

\* _make_request(url) with retries left at MAX_RETRIES; the server fails the
\* first `failures` GETs of the url
MakeRequestCalls ==
    { [fn |-> "make_request", url |-> u, failures |-> f, body |-> b] :
         u \in {BASE_URL, FullUrl("/dailymed/lookup.cfm?setid=A")},
         f \in Failures, b \in {<<>>, <<LabelLink("lookup.cfm?setid=B")>>} }

\* the highest current_page handed to _has_next_page
MaxCurrentPage == 3

HasNextPageCalls ==
    { [fn |-> "has_next_page", html |-> h, current_page |-> p] :
         h \in UNION { [1..n -> AllAnchors] : n \in 0..MaxLinks },
         p \in 1..MaxCurrentPage }

Calls ==
    CheckAllergiesCalls \cup FormatResultsCalls \cup MakeRequestCalls
    \cup HasNextPageCalls

\* a MedicationSearcher was constructed and one of its helpers is called
InitCalls ==
    /\ pc = "call"
    /\ args \in Calls
    /\ ret = None
    /\ gets = <<>>
    /\ openai_client = FALSE
    /\ seen_urls = {}
    /\ all_urls = <<>>
    /\ page = 0
    /\ response = NoResponse
    /\ page_urls = <<>>
    /\ has_next = FALSE
    /\ i = 0
    /\ soup = NoDoc
    /\ result = NoResult
    /\ qualified_results = <<>>
    /\ classified = <<>>
    /\ crawl_end = "running"

\* the call returns value
CallReturns(value) ==
    /\ ret' = value
    /\ pc' = "returned"
    /\ UNCHANGED <<args, gets, openai_client>>
    /\ UNCHANGED label_vars
    /\ UNCHANGED crawl_vars

\* lines 731-739
CallCheckAllergies ==
    /\ pc = "call"
    /\ args.fn = "check_allergies"
    /\ CallReturns(check_allergies(args.ingredients))

\* lines 957-980
CallFormatResults ==
    /\ pc = "call"
    /\ args.fn = "format_results"
    /\ CallReturns(format_results(args.medication_name, args.results))

\* a pass of the loop of _make_request produced p
AfterRequestPass(p) ==
    IF p.returns
    THEN pc' = "returned" /\ ret' = p.response
    ELSE pc' = "call" /\ ret' = ret

\* lines 73-85: one pass of the loop, attempt = Len(gets)
CallMakeRequest ==
    /\ pc = "call"
    /\ args.fn = "make_request"
    /\ Len(gets) < MAX_RETRIES
    /\ gets' = Append(gets, args.url)
    /\ AfterRequestPass(RequestPass(Len(gets), args.failures, args.body))
    /\ UNCHANGED <<args, openai_client>>
    /\ UNCHANGED label_vars
    /\ UNCHANGED crawl_vars

\* lines 166-214: (has_next, verbose_info['method_used'])
CallHasNextPage ==
    /\ pc = "call"
    /\ args.fn = "has_next_page"
    /\ CallReturns([has_next |-> has_next_page(args.html, args.current_page),
                    method   |-> has_next_method(args.html, args.current_page)])

NextCalls ==
    \/ CallHasNextPage
    \/ CallCheckAllergies
    \/ CallFormatResults
    \/ CallMakeRequest

SpecCalls == InitCalls /\ [][NextCalls]_vars

(***************************************************************************)
(* Properties                                                              *)
(***************************************************************************)
\* the label links of a page, and the urls they can become
LabelAnchors == { a \in Anchors : FactsOf[a].url.label /\ FactsOf[a].url.has_setid }
Identifiers ==
    { FactsOf[a].url.normalized : a \in LabelAnchors } \cup { FactsOf[a].url.full : a \in LabelAnchors }

\* the setid a url carries
SetidOfUrl == [u \in Identifiers |-> parse_qs(urlparse(u).query, "setid")[1]]
\* the setid a label link carries
SetidOfLink == [a \in LabelAnchors |-> SetidOfUrl[FactsOf[a].url.full]]

\* the label links of a fetched page
LabelLinksOf(html) == { html[k] : k \in 1..Len(html) } \cap LabelAnchors

\* C1: within one run no setid is handed to process_medication_page more
\* than once.
C1_SetidClassifiedOnce ==
    \A m, n \in 1..Len(classified) :
        m # n => SetidOfUrl[classified[m]] # SetidOfUrl[classified[n]]

\* C2: two links of a page that carry the same setid get the same
\* identifier, however they are written, and normalizing an identifier
\* gives the identifier back.
C2_SameSetidSameIdentifier ==
    response.ok =>
        \A a, b \in LabelLinksOf(response.text) :
            /\ SetidOfLink[a] = SetidOfLink[b]
                  => FactsOf[a].url.normalized = FactsOf[b].url.normalized
            /\ Normalized(FactsOf[a].url.normalized) = FactsOf[a].url.normalized

\* C3: page p+1 is requested only after page p was fetched, signalled a next
\* page and yielded a new candidate; when no next page is signalled or the
\* page yields nothing the function returns, and no page is requested after
\* that.
C3_NextPageOnlyAfterYield ==
    [][ /\ pc' = "c_request"
           => /\ pc = "c_has_next"
              /\ page' = page + 1
              /\ response.ok
              /\ has_next_page(response.text, page)
              /\ Len(page_urls) > 0
        /\ (pc = "c_has_next"
            /\ (~has_next_page(response.text, page) \/ Len(page_urls) = 0))
           => pc' = "s_results"
        /\ pc \notin Collecting => pc' \notin Collecting
      ]_vars

\* page 2 was requested and fetched
C3_Witness == pc = "c_extract" /\ page = 2

\* C4: the iteration in which a page yields no new candidate is the last
\* one, whatever the next-page heuristic says.
C4_ZeroYieldEndsLoop ==
    [][ (pc = "c_has_next" /\ Len(page_urls) = 0)
        => (pc' = "s_results" /\ crawl_end' = "last_page") ]_vars

\* page 2 shows a next link and yielded nothing
C4_Witness ==
    /\ pc = "c_has_next"
    /\ page = 2
    /\ Len(page_urls) = 0
    /\ TierNextLink(response.text)

\* the setids page 1 yielded, seen from the end of the iteration of page 2
FirstPageSetids ==
    { SetidOfUrl[all_urls[k]] : k \in 1..(Len(all_urls) - Len(page_urls)) }

\* C5: when page 2 lists only links to the identifiers page 1 yielded, the
\* crawl stops after page 2 and the candidates are those of page 1.
C5_RelistedPageEndsCrawl ==
    [][ ( /\ pc = "c_has_next"
          /\ page = 2
          /\ LabelLinksOf(response.text) # {}
          /\ \A a \in LabelLinksOf(response.text) : SetidOfLink[a] \in FirstPageSetids )
        => ( /\ pc' = "s_results"
             /\ Len(all_urls') = Cardinality(FirstPageSetids) ) ]_vars

\* C6: the stages run in the order fetch, warning, title, form, ingredients;
\* the first stage whose condition holds sets its reason and ends the
\* classification, and a stage whose condition does not hold leaves the
\* reason unset and hands over to the next stage.
C6_StagesInOrder ==
    [][ /\ pc = "p_fetch"
           => \/ pc' = "p_ndc" /\ result'.disqualification_reason = None
              \/ /\ pc' = "s_verdict"
                 /\ result'.disqualification_reason = "page_fetch_failed"
        /\ pc = "p_ndc"
           => IF check_inactive_ndc_warning(soup).found
              THEN /\ pc' = "s_verdict"
                   /\ result'.disqualification_reason = "inactive_ndc_warning"
              ELSE pc' = "p_title" /\ result'.disqualification_reason = None
        /\ pc = "p_title"
           => IF extract_medication_title(soup).title \in {None, ""}
              THEN /\ pc' = "s_verdict"
                   /\ result'.disqualification_reason = "title_not_found"
              ELSE pc' = "p_form" /\ result'.disqualification_reason = None
        /\ pc = "p_form"
           => LET ft == Get(analyze_form_type_ai(openai_client, soup.ai_form,
                                                 result.title),
                            "form_type", None)
              IN  IF ft \in {"disqualify", "unknown"}
                  THEN /\ pc' = "s_verdict"
                       /\ result'.disqualification_reason = "form_type_" \o ft
                  ELSE /\ pc' = "p_ingredients"
                       /\ result'.disqualification_reason = None
        /\ pc = "p_ingredients"
           => LET a == check_allergies(
                          extract_inactive_ingredients_ai(openai_client, soup).ingredients)
              IN  /\ pc' = "s_verdict"
                  /\ result'.disqualification_reason =
                        IF a.found THEN "allergen_found_" \o a.allergen ELSE None
        /\ pc = "s_verdict" => result' = result
      ]_vars

\* a page went through every stage and the last one disqualified it
C6_Witness ==
    pc = "s_verdict" /\ result.disqualification_reason = "allergen_found_lactose"

\* C7: a returned verdict is qualified exactly when it has no reason.
C7_QualifiedIffNoReason ==
    pc = "s_verdict" => (result.qualified <=> result.disqualification_reason = None)

\* a qualified verdict was returned
C7_Witness == pc = "s_verdict" /\ result.qualified

\* C8: the collected identifiers are distinct; they are classified one at a
\* time in list order, whatever the verdict of the one before, and when the
\* run is over each of them has been classified once.
C8_EveryCandidateClassified ==
    /\ [](\A m, n \in 1..Len(all_urls) : m # n => all_urls[m] # all_urls[n])
    /\ [](pc \in Classifying \cup {"s_verdict", "done"}
          => classified = SubSeq(all_urls, 1, IF pc = "p_fetch" THEN i - 1 ELSE i))
    /\ [](pc = "done" => classified = all_urls)
    /\ [][ (pc = "s_verdict" /\ i < Len(all_urls))
           => (pc' = "p_fetch" /\ i' = i + 1) ]_vars
    /\ [][ pc = "p_fetch" => (pc' \in {"p_ndc", "s_verdict"} /\ i' = i) ]_vars

\* the second candidate is about to be classified after the fetch of the
\* first one failed
C8_Witness ==
    /\ pc = "p_fetch"
    /\ i = 2
    /\ result.disqualification_reason = "page_fetch_failed"

\* C9: a failed request of a search page makes the function return what it
\* has collected, and all of it is classified.
C9_FailedSearchRequestKeepsUrls ==
    /\ [][ (crawl_end = "running" /\ crawl_end' = "request_failed")
           => (pc = "c_request" /\ pc' = "s_results" /\ all_urls' = all_urls) ]_vars
    /\ [](crawl_end = "request_failed" => pc \notin Collecting)
    /\ []((crawl_end = "request_failed" /\ pc = "done") => classified = all_urls)

\* a later search page could not be fetched, and the candidates of the
\* earlier pages were classified
C9_Witness ==
    crawl_end = "request_failed" /\ pc = "done" /\ Len(classified) > 0

\* the title contains a disqualifying keyword, in any case
HasDisqualifyingKeyword(title) ==
    \E k \in 1..Len(DISQUALIFYING_FORMS) :
        Contains(Lower(title), DISQUALIFYING_FORMS[k])

\* C10, as claimed: no page whose title contains a disqualifying keyword
\* qualifies.
C10_KeywordNeverQualifies ==
    (pc = "s_verdict" /\ result.qualified) => ~HasDisqualifyingKeyword(result.title)

\* C10, amended: when the keyword scan gives the answer (no service is
\* configured, or its call fails or its reply holds no JSON object), a title
\* that contains a disqualifying keyword is disqualified with form type
\* "disqualify", also when it contains a qualifying keyword.
C10_KeywordScanDisqualifies ==
    [][ ( /\ pc = "p_form"
          /\ ~openai_client \/ soup.ai_form.status # "ok"
          /\ HasDisqualifyingKeyword(result.title) )
        => ( /\ pc' = "s_verdict"
             /\ ~result'.qualified
             /\ result'.form_analysis.form_type = "disqualify"
             /\ result'.disqualification_reason = "form_type_disqualify" ) ]_vars

\* the keyword scan disqualified a title with a keyword of either list
C10_Witness ==
    /\ pc = "s_verdict"
    /\ ~openai_client
    /\ result.title = "Softgel Capsules"
    /\ result.disqualification_reason = "form_type_disqualify"

\* the call of the service failed, or its reply holds no JSON object, or the
\* JSON object of its reply has no form_type
ServiceUnavailable(reply) ==
    reply.status # "ok" \/ "form_type" \notin DOMAIN reply.result

\* C11: when the service is configured and its call fails, its reply is not
\* JSON or its JSON object has no form_type, the form analysis of the page is
\* the result of the keyword scan of the title, and the run goes on.
C11_FailedServiceFallsBack ==
    [][ (pc = "p_form" /\ openai_client /\ ServiceUnavailable(soup.ai_form))
        => ( /\ result'.form_analysis = analyze_form_type_regex(result.title)
             /\ pc' \in {"p_ingredients", "s_verdict"} ) ]_vars

\* the k-th entry of ALLERGENS, in lower case, is a substring of the entries
\* joined by one blank, in lower case
TokenOccurs(k, ingredients) ==
    Contains(Lower(Join(ingredients, " ")), Lower(ALLERGENS[k]))

\* C12: _check_allergies reports an allergen exactly when some entry of
\* ALLERGENS, compared without regard to case, is a substring of the entries
\* joined by one blank.
C12_AllergenIffSubstring ==
    (pc = "returned" /\ args.fn = "check_allergies")
    => (ret.found <=> \E k \in 1..Len(ALLERGENS) : TokenOccurs(k, args.ingredients))

\* "corn starch" is found across two entries written in upper case
C12_Witness ==
    /\ pc = "returned"
    /\ args.fn = "check_allergies"
    /\ args.ingredients = <<"CORN", "Starch">>
    /\ TokenOccurs(4, args.ingredients)
    /\ ret.found

\* C20: the allergen returned is the first entry of ALLERGENS, in list
\* order, that occurs in the joined text, and None is returned when no entry
\* occurs.
C20_FirstInListOrder ==
    (pc = "returned" /\ args.fn = "check_allergies")
    => IF \E k \in 1..Len(ALLERGENS) : TokenOccurs(k, args.ingredients)
       THEN /\ ret.found
            /\ \E k \in 1..Len(ALLERGENS) :
                  /\ ret.allergen = ALLERGENS[k]
                  /\ TokenOccurs(k, args.ingredients)
                  /\ \A j \in 1..(k - 1) : ~TokenOccurs(j, args.ingredients)
       ELSE ret = [found |-> FALSE, allergen |-> None]

\* whey comes first in the text, lactose comes first in ALLERGENS
C20_Witness ==
    /\ pc = "returned"
    /\ args.fn = "check_allergies"
    /\ args.ingredients = <<"whey protein", "Lactose Monohydrate">>
    /\ ret.allergen = "lactose"

\* the page has no h1, no .drug-title, no .label-title and no title element
NoTitleAtAll(d) ==
    d.h1 = None /\ d.drug_title = None /\ d.label_title = None /\ d.title = None

\* C13, as claimed: a fetched page without warning and without any title is
\* disqualified with reason title_not_found and the selectors_tried of its
\* title_info is empty.
C13_NoTitleEmptyDiagnostics ==
    [][ (pc = "p_title" /\ NoTitleAtAll(soup))
        => ( /\ pc' = "s_verdict"
             /\ result'.disqualification_reason = "title_not_found"
             /\ result'.title_info.selectors_tried = <<>> ) ]_vars

\* C13, amended: such a page is disqualified with reason title_not_found,
\* and the selectors_tried of its title_info lists the four selectors and the
\* fallback, each as not found, with no found_in and no title_text.
C13_NoTitleListsFailedSelectors ==
    [][ (pc = "p_title" /\ NoTitleAtAll(soup))
        => ( /\ pc' = "s_verdict"
             /\ ~result'.qualified
             /\ result'.title = None
             /\ result'.disqualification_reason = "title_not_found"
             /\ result'.title_info =
                   [selectors_tried |->
                       << [selector |-> "h1", found |-> FALSE],
                          [selector |-> "drug_title", found |-> FALSE],
                          [selector |-> "label_title", found |-> FALSE],
                          [selector |-> "title", found |-> FALSE],
                          [selector |-> "title (fallback)", found |-> FALSE] >>,
                    found_in |-> None, title_text |-> None] ) ]_vars

\* the verdict of a page on which every selector failed
C13_Witness ==
    /\ pc = "s_verdict"
    /\ result.disqualification_reason = "title_not_found"
    /\ \A k \in 1..Len(result.title_info.selectors_tried) :
          ~result.title_info.selectors_tried[k].found

\* the form types that stand for a qualifying form: the keywords of the
\* keyword scan and the other_oral of the service
QualifyingTags ==
    { QUALIFYING_FORMS[k] : k \in 1..Len(QUALIFYING_FORMS) } \cup {"other_oral"}

\* C14: a qualified verdict carries a title, the url of the page, an
\* ingredient list and a form type, and the form type is a qualifying tag:
\* never "disqualify", never "unknown", never missing.
C14_QualifiedHasFormTag ==
    (pc = "s_verdict" /\ result.qualified)
    => ( /\ result.title # None /\ Len(result.title) > 0
         /\ result.url = all_urls[i]
         /\ result.inactive_ingredients \in Seq(STRING)
         /\ "form_type" \in DOMAIN result
         /\ result.form_type \notin {"disqualify", "unknown"}
         /\ result.form_type \in QualifyingTags )

\* the line opens a numbered entry: digits, then ". "
IsNumberedLine(line) ==
    /\ Len(LeadingDigits(line)) > 0
    /\ StartsWith(From(line, Len(LeadingDigits(line)) + 1), ". ")

IsTotalLine(line) == StartsWith(line, "Total: ")

IsKind(line, kind) ==
    CASE kind = "numbered" -> IsNumberedLine(line)
      [] kind = "total"    -> IsTotalLine(line)
      [] kind = "none"     -> line = "No qualified medications found."

\* the lines of the given kind, in order
RECURSIVE SelectLines(_, _)
SelectLines(lines, kind) ==
    IF Len(lines) = 0 THEN <<>>
    ELSE (IF IsKind(lines[1], kind) THEN <<lines[1]>> ELSE <<>>)
         \o SelectLines(Tail(lines), kind)

\* C15: for the empty list the report holds the line "No qualified
\* medications found.", no numbered entry and no total line; for a non-empty
\* list it holds one numbered entry for each result, in input order, and
\* after them one total line with the length of the list.
C15_ReportListsResults ==
    (pc = "returned" /\ args.fn = "format_results")
    => LET lines    == Split(ret, "\n")
           results  == args.results
           numbered == SelectLines(lines, "numbered")
           totals   == SelectLines(lines, "total")
           none     == SelectLines(lines, "none")
       IN  IF Len(results) = 0
           THEN Len(none) = 1 /\ numbered = <<>> /\ totals = <<>>
           ELSE /\ none = <<>>
                /\ numbered =
                      [k \in 1..Len(results) |-> ToStr(k) \o ". " \o results[k].title]
                /\ totals =
                      << "Total: " \o ToStr(Len(results)) \o " qualified result(s)" >>
                /\ \E t \in 1..Len(lines) :
                      /\ IsTotalLine(lines[t])
                      /\ \A k \in 1..Len(lines) : IsNumberedLine(lines[k]) => k < t

\* the report of two results
C15_Witness ==
    /\ pc = "returned"
    /\ args.fn = "format_results"
    /\ Len(args.results) = 2
    /\ args.results[1] # args.results[2]
    /\ Contains(ret, "Total: 2 qualified result(s)")

\* C16: main returns 0 exactly when the run produced a qualified result,
\* and 1 otherwise, also when no result url was found.
C16_ExitCodeTellsQualified ==
    pc = "exited"
    => ( /\ ret \in {0, 1}
         /\ ret = 0 <=> Len(qualified_results) > 0
         /\ Len(all_urls) = 0 => ret = 1 )

\* the run ended with a qualified result
C16_Witness == pc = "exited" /\ ret = 0 /\ Len(qualified_results) > 0

\* C17: a call of _make_request sends at most MAX_RETRIES GETs, all of them
\* for its url; it returns the first response that succeeds and sends nothing
\* after it; it returns None only after MAX_RETRIES failed GETs; and it
\* leaves the state of the crawl alone.  The response and the number of GETs
\* are those the crawl and the classifier take from make_request.
C17_BoundedRetriesOfOneRequest ==
    /\ [](args.fn = "make_request"
          => /\ Len(gets) <= MAX_RETRIES
             /\ \A k \in 1..Len(gets) : gets[k] = args.url)
    /\ []((args.fn = "make_request" /\ pc = "returned")
          => /\ ret.ok <=> args.failures < MAX_RETRIES
             /\ ret.ok => Len(gets) = args.failures + 1
             /\ ~ret.ok => Len(gets) = MAX_RETRIES
             /\ ret = make_request(args.failures, args.body)
             /\ Len(gets) = request_attempts(args.failures))
    /\ [][ args.fn = "make_request"
           => /\ pc = "returned" => gets' = gets
              /\ UNCHANGED <<seen_urls, all_urls, page, page_urls, crawl_end>> ]_vars

\* the third GET of the url succeeded
C17_Witness ==
    /\ pc = "returned"
    /\ args.fn = "make_request"
    /\ args.failures = 2
    /\ Len(gets) = 3
    /\ ret.ok

\* tier 1: the string of some link holds next or > and the class of the
\* parent of the link does not hold disabled
NextLinkEnabled(html) ==
    \E k \in 1..Len(html) :
        /\ Contains(Lower(html[k].text), "next") \/ Contains(html[k].text, ">")
        /\ ~Contains(Lower(html[k].parent_class), "disabled")

\* some link whose string holds next or > has a disabled parent
NextLinkDisabled(html) ==
    \E k \in 1..Len(html) :
        /\ Contains(Lower(html[k].text), "next") \/ Contains(html[k].text, ">")
        /\ Contains(Lower(html[k].parent_class), "disabled")

\* tier 2: the href of some link holds page=<n> with n above the current page
HigherPageLink(html, current_page) ==
    \E k \in 1..Len(html) : \E n \in (current_page + 1)..9 :
        Contains(html[k].href, "page=" \o ToStr(n))

\* tier 3: the href of some link holds page=, its text holds next or > or is
\* a number, and its class does not hold disabled
PageLinkEnabled(html) ==
    \E k \in 1..Len(html) :
        /\ Contains(html[k].href, "page=")
        /\ \/ Contains(Lower(html[k].text), "next")
           \/ Contains(html[k].text, ">")
           \/ html[k].text \in {"1", "2", "3"}
        /\ ~Contains(Lower(html[k].class), "disabled")

\* C18: _has_next_page returns true exactly when one of the three tiers is
\* affirmative; the method it reports is the first affirmative tier in the
\* order 1, 2, 3; and a disabled next link does not keep a later tier from
\* answering.
C18_FirstAffirmativeTier ==
    (pc = "returned" /\ args.fn = "has_next_page")
    => LET t1 == NextLinkEnabled(args.html)
           t2 == HigherPageLink(args.html, args.current_page)
           t3 == PageLinkEnabled(args.html)
       IN  /\ ret.has_next <=> (t1 \/ t2 \/ t3)
           /\ ret.method = IF t1 THEN "next_link_text"
                           ELSE IF t2 THEN "page_number_higher"
                           ELSE IF t3 THEN "page_link_text"
                           ELSE "none"
           /\ (NextLinkDisabled(args.html) /\ (t2 \/ t3)) => ret.has_next

\* the only next link is disabled, no page number is higher, and tier 3
\* answers
C18_Witness ==
    /\ pc = "returned"
    /\ args.fn = "has_next_page"
    /\ NextLinkDisabled(args.html)
    /\ ~NextLinkEnabled(args.html)
    /\ ret.has_next
    /\ ret.method = "page_link_text"

\* the position of the first link of the page that yields the url u, as its
\* normalized identifier or as its full url
FirstLinkOf(html, u) ==
    CHOOSE k \in 1..Len(html) :
        /\ u \in {FactsOf[html[k]].url.normalized, FactsOf[html[k]].url.full}
        /\ \A j \in 1..(k - 1) :
              u \notin {FactsOf[html[j]].url.normalized, FactsOf[html[j]].url.full}

\* the position of u in the list of distinct urls
PositionIn(urls, u) == CHOOSE k \in 1..Len(urls) : urls[k] = u

\* C19: the identifiers a page yields are appended to the candidates in the
\* order of their links, page after page; the candidates are classified in
\* that order; each verdict is appended to the returned list exactly when it
\* is qualified, and the list is never reordered: the returned list is the
\* subsequence of the qualified verdicts in discovery order.
C19_QualifiedInDiscoveryOrder ==
    /\ [][ pc = "c_extract"
           => /\ all_urls' = all_urls \o page_urls'
              /\ \A m, n \in 1..Len(page_urls') :
                    m < n => FirstLinkOf(response.text, page_urls'[m])
                             < FirstLinkOf(response.text, page_urls'[n]) ]_vars
    /\ [][ pc \notin Collecting => all_urls' = all_urls ]_vars
    /\ [](classified = SubSeq(all_urls, 1, Len(classified)))
    /\ [][ pc = "s_verdict"
           => qualified_results' =
                 IF result.qualified THEN Append(qualified_results, result)
                 ELSE qualified_results ]_vars
    /\ [][ pc # "s_verdict" => qualified_results' = qualified_results ]_vars
    /\ [](\A m \in 1..Len(qualified_results) :
             /\ qualified_results[m].qualified
             /\ \E k \in 1..Len(classified) : classified[k] = qualified_results[m].url)
    /\ [](\A m, n \in 1..Len(qualified_results) :
             m < n => PositionIn(all_urls, qualified_results[m].url)
                      < PositionIn(all_urls, qualified_results[n].url))

\* three candidates were classified; the second one was disqualified and the
\* two others are returned
C19_Witness ==
    /\ pc = "done"
    /\ Len(classified) = 3
    /\ Len(qualified_results) = 2
    /\ qualified_results[1].url = all_urls[1]
    /\ qualified_results[2].url = all_urls[3]

\* the service is configured and its reply holds a JSON array
ServiceGaveArray(client, d) == client /\ d.ai_ingredients.status = "ok"

\* the entries of the array that are not empty, each without the blanks
\* around it and in lower case
RECURSIVE NormalizedEntries(_, _)
NormalizedEntries(array, k) ==
    IF k > Len(array) THEN <<>>
    ELSE (IF array[k] = "" THEN <<>> ELSE << Lower(Strip(array[k])) >>)
         \o NormalizedEntries(array, k + 1)

\* C21, as claimed: when the service is configured and replies with a JSON
\* array, the ingredient list is that array; otherwise it is the result of
\* the structural scan.
C21_AiArrayIsIngredientList ==
    [][ pc = "p_ingredients"
        => result'.inactive_ingredients =
              IF ServiceGaveArray(openai_client, soup)
              THEN soup.ai_ingredients.result
              ELSE soup.scan ]_vars

\* C21, amended: when the service is configured and replies with a JSON
\* array, the ingredient list is made of the non-empty entries of the array,
\* stripped and in lower case, whatever the structural scan would find;
\* when no service is configured, the call raises or no array can be parsed,
\* the list is the result of the structural scan; in each case the stage
\* ends with a verdict.
C21_AiArraySupersedesScan ==
    [][ pc = "p_ingredients"
        => /\ pc' = "s_verdict"
           /\ result'.inactive_ingredients =
                 IF ServiceGaveArray(openai_client, soup)
                 THEN NormalizedEntries(soup.ai_ingredients.result, 1)
                 ELSE soup.scan
           /\ result'.ingredient_info.ai_used
                 <=> ServiceGaveArray(openai_client, soup) ]_vars

\* the list of a verdict came from the array of the service
C21_Witness ==
    /\ pc = "s_verdict"
    /\ openai_client
    /\ result.qualified
    /\ result.ingredient_info.ai_used
    /\ result.inactive_ingredients = <<"magnesium stearate">>

\* the url reads scheme://host/path?setid=<value>: its query is the setid
\* and nothing else
IsNormalizedForm ==
    [u \in Identifiers |->
        /\ HasSetid(u)
        /\ urlparse(u).query = "setid=" \o SetidOfUrl[u]]

\* C22: every url of the seen-set and of the candidate list is in the
\* normalized form.
C22_OnlyNormalizedIdentifiers ==
    /\ \A u \in seen_urls : IsNormalizedForm[u]
    /\ \A k \in 1..Len(all_urls) : IsNormalizedForm[all_urls[k]]

\* the urls of a list, as a set
UrlsOf(urls) == { urls[k] : k \in 1..Len(urls) }

\* C23: whatever the pages say about a next page, the pagination loop ends:
\* an iteration adds to the seen-set exactly the urls it yields and the loop
\* goes on only after a non-empty yield, so when page p + 1 is requested the
\* seen-set, which holds only urls the site's links can become, has at least
\* p urls, so p is at most the number of those urls; and the function does
\* return.
C23_CrawlTerminates ==
    /\ [][ /\ pc = "c_extract"
              => /\ seen_urls' = seen_urls \cup UrlsOf(page_urls')
                 /\ UrlsOf(page_urls') \cap seen_urls = {}
                 /\ seen_urls' \subseteq Identifiers
           /\ (pc = "c_has_next" /\ pc' = "c_request")
              => /\ Len(page_urls) > 0
                 /\ Cardinality(seen_urls) >= page
                 /\ page' <= Cardinality(Identifiers) + 1 ]_vars
    /\ <>(pc = "s_results")

\* pages 1 and 2 signalled a next page and yielded, page 3 shows a next link
\* too and yields nothing new: the loop is about to stop on the zero yield
C23_Witness ==
    /\ pc = "c_has_next"
    /\ page = 3
    /\ has_next
    /\ has_next_page(response.text, page)
    /\ Len(page_urls) = 0
    /\ Cardinality(seen_urls) >= 2

\* what _extract_inactive_ingredients_ai returns for the page is the empty
\* list
EmptyExtraction(client, d) ==
    IF ServiceGaveArray(client, d)
    THEN NormalizedEntries(d.ai_ingredients.result, 1) = <<>>
    ELSE d.scan = <<>>

\* C24: when the extraction of a page that reached the ingredient stage gives
\* the empty list, the stage returns (it does not raise), the allergen check
\* reports no allergen, no reason is set and the page is qualified with the
\* empty ingredient list.
C24_EmptyExtractionQualifies ==
    [][ (pc = "p_ingredients" /\ EmptyExtraction(openai_client, soup))
        => /\ pc' = "s_verdict"
           /\ result'.inactive_ingredients = <<>>
           /\ result'.allergen_check =
                 [has_allergen |-> FALSE, allergen_found |-> None]
           /\ result'.disqualification_reason = None
           /\ result'.qualified ]_vars

\* a page whose scan found no ingredient, without the service, was
\* qualified
C24_Witness ==
    /\ pc = "s_verdict"
    /\ result.qualified
    /\ result.inactive_ingredients = <<>>
    /\ ~result.ingredient_info.ai_used
    /\ ~result.allergen_check.has_allergen

====
